---- MODULE Spec2Model ----
(***************************************************************************)
(* A model of regexrs: the parser-combinator toolkit                       *)
(* (src/parser/combinators.rs), the regex grammar (src/parser/mod.rs), the *)
(* transition-table automaton (src/fsm.rs) and Regex::compile /            *)
(* Regex::matches (src/main.rs).                                           *)
(*                                                                         *)
(* A char is a one-character string; a &str is a sequence of chars.        *)
(* A parser (a Rust closure or fn item implementing Parser) is a record    *)
(* describing the closure; parse(p, input) runs it.                        *)
(***************************************************************************)
EXTENDS Integers, Sequences, FiniteSets, TLC

VARIABLES
    regex,      \* the pattern text handed to Regex::compile
    ast,        \* compile's local `ast`: the result of parse_regex
    cpc,        \* where compile is: "parse", "loop", "done", "panic"
    cpos,       \* how many chars of regex compile's loop has taken
    graph,      \* FSM.graph : Vec<Transitions>
    mpc,        \* per caller: where its matches call is
    mtext,      \* per caller: the text handed to matches
    mstate,     \* per caller: the local `state` of matches
    mpos,       \* per caller: how many symbols of the text were read
    mresult,    \* per caller: the value matches returned
    pinput,     \* the input handed to the parsers under test
    pout        \* what the parsers returned for pinput

vars == <<regex, ast, cpc, cpos, graph, mpc, mtext, mstate, mpos, mresult, pinput, pout>>

(***************************************************************************)
(* Bounds of the model.                                                    *)
(***************************************************************************)
MaxPatternLen == 2
MaxTextLen == 2
MaxSharedLen == 2
MaxParseLen == 3
MaxBraceLen == 5

RECURSIVE BoundedSeq(_, _)
BoundedSeq(S, n) ==
    IF n = 0 THEN {<<>>}
    ELSE LET shorter == BoundedSeq(S, n - 1)
         IN  shorter \cup {Append(s, x) : s \in {t \in shorter : Len(t) = n - 1}, x \in S}

(***************************************************************************)
(* Characters.                                                             *)
(***************************************************************************)
\* `c as usize`: the code point of a char
CodePoint(c) ==
    CASE c = "\t" -> 9
      [] c = "\n" -> 10
      [] c = " " -> 32
      [] c = "!" -> 33
      [] c = "$" -> 36
      [] c = "(" -> 40
      [] c = ")" -> 41
      [] c = "*" -> 42
      [] c = "+" -> 43
      [] c = "," -> 44
      [] c = "-" -> 45
      [] c = "." -> 46
      [] c = "1" -> 49
      [] c = "2" -> 50
      [] c = "3" -> 51
      [] c = "4" -> 52
      [] c = "5" -> 53
      [] c = "?" -> 63
      [] c = "A" -> 65
      [] c = "H" -> 72
      [] c = "W" -> 87
      [] c = "[" -> 91
      [] c = "\\" -> 92
      [] c = "]" -> 93
      [] c = "^" -> 94
      [] c = "a" -> 97
      [] c = "b" -> 98
      [] c = "c" -> 99
      [] c = "d" -> 100
      [] c = "e" -> 101
      [] c = "l" -> 108
      [] c = "o" -> 111
      [] c = "r" -> 114
      [] c = "{" -> 123
      [] c = "|" -> 124
      [] c = "}" -> 125
      [] c = "€" -> 8364

SPECIAL_CHARS == {".", "^", "$", "*", "+", "?", "{", "}", "[", "]", "\\", "|", "(", ")"}

SEQ_CHARS == {"A", "b", "B", "d", "D", "s", "S", "w", "W", "Z"}

\* char::is_digit(10)
is_digit(c) == c \in {"0", "1", "2", "3", "4", "5", "6", "7", "8", "9"}

\* char::is_whitespace, on the characters of the model
is_whitespace(c) == c \in {" ", "\t", "\n"}

\* the value of a decimal digit
DigitValue(c) ==
    CASE c = "0" -> 0 [] c = "1" -> 1 [] c = "2" -> 2 [] c = "3" -> 3 [] c = "4" -> 4
      [] c = "5" -> 5 [] c = "6" -> 6 [] c = "7" -> 7 [] c = "8" -> 8 [] c = "9" -> 9

(***************************************************************************)
(* src/parser/combinators.rs                                               *)
(***************************************************************************)
\* ParseResult: Err(())
Err == [ok |-> FALSE]

\* no ParseResult at all: the call never returns, because a `while let` loop
\* repeats a parse that succeeds without consuming (a parser is pure: on the
\* same input it answers the same, for ever)
Hang == [ok |-> FALSE, hang |-> TRUE]

\* ParseResult: Ok((value, rest))
Ok(value, rest) == [ok |-> TRUE, val |-> value, rest |-> rest]

\* Option and the unit value
None == [some |-> FALSE]

Some(value) == [some |-> TRUE, val |-> value]

Unit == "()"

unwrap_or(opt, default) == IF opt.some THEN opt.val ELSE default

\* a fn item used as a parser: impl Parser for F where F: Fn(&str) -> ParseResult
fn_item(name) == [op |-> "fn", name |-> name]

\* a closure |_| value
const_fn(value) == [fn |-> "const", val |-> value]

\* a closure of the grammar, by name (its body is in call_fn / call_pred)
closure(name) == [fn |-> name]

\* Parser::or
or(self, parser) == [op |-> "or", p1 |-> self, p2 |-> parser]

pair(parser1, parser2) == [op |-> "pair", p1 |-> parser1, p2 |-> parser2]

\* map, and Parser::map
map(parser, map_fn) == [op |-> "map", p |-> parser, f |-> map_fn]

left(left_parser, right_parser) == map(pair(left_parser, right_parser), closure("left"))

right(left_parser, right_parser) == map(pair(left_parser, right_parser), closure("right"))

\* pred, and Parser::pred
pred(parser, predicate) == [op |-> "pred", p |-> parser, f |-> predicate]

one_or_more(parser) == [op |-> "one_or_more", p |-> parser]

zero_or_more(parser) == [op |-> "zero_or_more", p |-> parser]

maybe(parser) == [op |-> "maybe", p |-> parser]

match_literal(expected) == [op |-> "match_literal", expected |-> expected]

sep_by(parser, sep) == [op |-> "sep_by", p |-> parser, sep |-> sep]

\* str::split_once: the text before and after the first occurrence of `expected`
split_once(input, expected) ==
    LET n == Len(expected)
        at == {i \in 0..(Len(input) - n) : SubSeq(input, i + 1, i + n) = expected}
    IN  IF at = {} THEN None
        ELSE LET i == CHOOSE j \in at : \A k \in at : j <= k
             IN  Some(<<SubSeq(input, 1, i), SubSeq(input, i + n + 1, Len(input))>>)

any_char(input) ==
    IF input = <<>> THEN Err ELSE Ok(Head(input), Tail(input))

whitespace_surrounded_sep(sep) ==
    map(pair(pair(fn_item("whitespace"), match_literal(sep)), fn_item("whitespace")),
        const_fn(Unit))

RECURSIVE parse(_, _), call(_, _), call_fn(_, _), call_pred(_, _)
RECURSIVE while_parse(_, _, _), while_sep_parse(_, _, _, _)

\* the `while let Ok((next, rest)) = parser.parse(tmp_input)` loop of
\* one_or_more and zero_or_more
while_parse(parser, tmp_input, result) ==
    LET r == parse(parser, tmp_input)
    IN  IF r.ok
        THEN IF Len(r.rest) < Len(tmp_input)
             THEN while_parse(parser, r.rest, Append(result, r.val))
             ELSE Hang
        ELSE IF r = Hang THEN Hang
        ELSE Ok(result, tmp_input)

\* the `while let` loop of sep_by: the separator, then the parser
while_sep_parse(parser, sep, tmp_input, result) ==
    LET s == parse(whitespace_surrounded_sep(sep), tmp_input)
        r == IF s.ok THEN parse(parser, s.rest) ELSE s
    IN  IF r.ok
        THEN IF Len(r.rest) < Len(tmp_input)
             THEN while_sep_parse(parser, sep, r.rest, Append(result, r.val))
             ELSE Hang
        ELSE IF r = Hang THEN Hang
        ELSE Ok(result, tmp_input)

\* Parser::parse: runs the closure a combinator returned
parse(p, input) ==
    CASE p.op = "fn" -> call(p.name, input)
      [] p.op = "or" ->
            LET r1 == parse(p.p1, input)
            IN  IF r1.ok \/ r1 = Hang THEN r1 ELSE parse(p.p2, input)
      [] p.op = "pair" ->
            LET r1 == parse(p.p1, input)
            IN  IF ~r1.ok THEN r1
                ELSE LET r2 == parse(p.p2, r1.rest)
                     IN  IF r2.ok THEN Ok(<<r1.val, r2.val>>, r2.rest) ELSE r2
      [] p.op = "map" ->
            LET r == parse(p.p, input)
            IN  IF r.ok THEN Ok(call_fn(p.f, r.val), r.rest) ELSE r
      [] p.op = "pred" ->
            LET r == parse(p.p, input)
            IN  IF r.ok /\ call_pred(p.f, r.val) THEN r
                ELSE IF r = Hang THEN Hang
                ELSE Err
      [] p.op = "one_or_more" ->
            LET first == parse(p.p, input)
            IN  IF first.ok THEN while_parse(p.p, first.rest, <<first.val>>) ELSE first
      [] p.op = "zero_or_more" -> while_parse(p.p, input, <<>>)
      [] p.op = "maybe" ->
            LET r == parse(p.p, input)
            IN  IF r.ok THEN Ok(Some(r.val), r.rest)
                ELSE IF r = Hang THEN Hang
                ELSE Ok(None, input)
      [] p.op = "match_literal" ->
            LET sp == split_once(input, p.expected)
            IN  IF sp.some /\ sp.val[1] = <<>> THEN Ok(Unit, sp.val[2]) ELSE Err
      [] p.op = "sep_by" ->
            LET first == parse(p.p, input)
            IN  IF first.ok THEN while_sep_parse(p.p, p.sep, first.rest, <<first.val>>)
                ELSE first

whitespace(input) ==
    parse(map(zero_or_more(pred(fn_item("any_char"), closure("is_whitespace"))),
              const_fn(Unit)),
          input)

(***************************************************************************)
(* src/parser/mod.rs: the AST                                              *)
(***************************************************************************)
ZeroOrMore == [q |-> "ZeroOrMore"]

OneOrMore == [q |-> "OneOrMore"]

Maybe == [q |-> "Maybe"]

LazyZeroOrMore == [q |-> "LazyZeroOrMore"]

LazyOneOrMore == [q |-> "LazyOneOrMore"]

LazyMaybe == [q |-> "LazyMaybe"]

Once == [q |-> "Once"]

AtLeast(n) == [q |-> "AtLeast", n |-> n]

Between(n, m) == [q |-> "Between", n |-> n, m |-> m]

Inclusive == "Inclusive"

Exclusive == "Exclusive"

Range(lo, hi) == [token |-> "Range", lo |-> lo, hi |-> hi]

Literal(c) == [token |-> "Literal", c |-> c]

CharacterClass(sign, items, quantifier) ==
    [sign |-> sign, items |-> items, quantifier |-> quantifier]

Class(class) == [element |-> "Class", class |-> class]

Sequence(seq, quantifier) == [element |-> "Sequence", seq |-> seq, quantifier |-> quantifier]

CaptureGroup(term, quantifier) ==
    [element |-> "CaptureGroup", term |-> term, quantifier |-> quantifier]

Term(left_anchored, right_anchored, elements) ==
    [left_anchored |-> left_anchored, right_anchored |-> right_anchored,
     elements |-> elements]

\* the match of special_sequence's closure: the SpecialSequence of a char
SpecialSequence(c) ==
    CASE c = "." -> "AnyCharacter"
      [] c = "A" -> "Start"
      [] c = "b" -> "WordBoundary"
      [] c = "B" -> "WithinWord"
      [] c = "d" -> "Digit"
      [] c = "D" -> "NotDigit"
      [] c = "s" -> "Whitespace"
      [] c = "S" -> "NotWhitespace"
      [] c = "w" -> "WordCharacter"
      [] c = "W" -> "NotWordCharacter"
      [] c = "Z" -> "End"

\* usize::from_str_radix(&value, 10) on a sequence of digits (the inputs of the
\* model are far too short to overflow a usize)
RECURSIVE from_str_radix(_)
from_str_radix(value) ==
    IF value = <<>> THEN 0
    ELSE 10 * from_str_radix(SubSeq(value, 1, Len(value) - 1)) + DigitValue(value[Len(value)])

(***************************************************************************)
(* src/parser/mod.rs: the grammar                                          *)
(***************************************************************************)
character_class(input) ==
    parse(map(map(pair(right(match_literal(<<"[">>),
                             left(fn_item("inside_character_class"), match_literal(<<"]">>))),
                       maybe(fn_item("parse_quantifier"))),
                  closure("character_class: CharacterClass")),
              closure("character_class: Element::Class")),
          input)

parse_quantifier(input) ==
    parse(or(or(or(or(or(or(
            map(match_literal(<<"+", "?">>), const_fn(LazyOneOrMore)),
            map(match_literal(<<"*", "?">>), const_fn(LazyZeroOrMore))),
            map(match_literal(<<"?", "?">>), const_fn(LazyMaybe))),
            map(match_literal(<<"+">>), const_fn(OneOrMore))),
            map(match_literal(<<"*">>), const_fn(ZeroOrMore))),
            map(match_literal(<<"?">>), const_fn(Maybe))),
            map(left(right(match_literal(<<"{">>), sep_by(fn_item("parse_int"), <<",">>)),
                     match_literal(<<"}">>)),
                closure("parse_quantifier: values"))),
          input)

parse_int(input) ==
    parse(map(one_or_more(pred(fn_item("any_char"), closure("is_digit"))),
              closure("parse_int: value")),
          input)

parse_sign(input) ==
    parse(map(maybe(match_literal(<<"^">>)), closure("parse_sign: s")), input)

inside_character_class(input) ==
    parse(pair(fn_item("parse_sign"),
               one_or_more(or(fn_item("character_range"), fn_item("single_item")))),
          input)

not_backslash(input) ==
    parse(pred(fn_item("any_char"), closure("not_backslash")), input)

single_item(input) ==
    parse(map(pred(fn_item("not_backslash"), closure("single_item: c != ']'")),
              closure("single_item: Token::Literal")),
          input)

character_range(input) ==
    LET r == parse(sep_by(pred(fn_item("not_backslash"), closure("character_range: c != '-'")),
                          <<"-">>),
                   input)
    IN  IF r.ok
        THEN IF Len(r.val) = 2 THEN Ok(Range(r.val[1], r.val[2]), r.rest) ELSE Err
        ELSE r

\* regular_character with a bug: the character is looked at and not consumed
regular_character_peek(input) ==
    LET r == parse(pred(fn_item("any_char"), closure("regular_character: !SPECIAL_CHARS")),
                   input)
    IN  IF r.ok THEN Ok(r.val, input) ELSE r

regular_character(input) ==
    parse(pred(fn_item("any_char"), closure("regular_character: !SPECIAL_CHARS")), input)

special_sequence(input) ==
    parse(map(pair(or(map(match_literal(<<".">>), const_fn(".")),
                      right(match_literal(<<"\\">>),
                            pred(fn_item("any_char"), closure("special_sequence: SEQ_CHARS")))),
                   maybe(fn_item("parse_quantifier"))),
              closure("special_sequence: Element::Sequence")),
          input)

match_group(input) ==
    parse(map(pair(left(right(match_literal(<<"(">>), fn_item("regex_term")),
                        match_literal(<<")">>)),
                   maybe(fn_item("parse_quantifier"))),
              closure("match_group: Element::CaptureGroup")),
          input)

escaped_character(input) ==
    parse(right(match_literal(<<"\\">>),
                pred(fn_item("any_char"), closure("escaped_character: SPECIAL_CHARS"))),
          input)

quantified_ordinary_character(input) ==
    parse(map(pair(or(fn_item("regular_character"), fn_item("escaped_character")),
                   maybe(fn_item("parse_quantifier"))),
              closure("quantified_ordinary_character: Element::Class")),
          input)

regex_term(input) ==
    parse(map(pair(maybe(match_literal(<<"^">>)),
                   pair(one_or_more(or(or(or(fn_item("special_sequence"),
                                             fn_item("character_class")),
                                          fn_item("quantified_ordinary_character")),
                                       fn_item("match_group"))),
                        maybe(match_literal(<<"$">>)))),
              closure("regex_term: Term")),
          input)

\* parse_regex with a bug: the remainder is not looked at
parse_regex_partial(input) ==
    parse(sep_by(fn_item("regex_term"), <<"|">>), input)

parse_regex(input) ==
    LET r == parse(sep_by(fn_item("regex_term"), <<"|">>), input)
    IN  IF r.ok
        THEN IF r.rest = <<>> THEN Ok(r.val, r.rest) ELSE Err
        ELSE r

\* calling a fn item that was passed as a parser
call(name, input) ==
    CASE name = "any_char" -> any_char(input)
      [] name = "whitespace" -> whitespace(input)
      [] name = "character_class" -> character_class(input)
      [] name = "parse_quantifier" -> parse_quantifier(input)
      [] name = "parse_int" -> parse_int(input)
      [] name = "inside_character_class" -> inside_character_class(input)
      [] name = "parse_sign" -> parse_sign(input)
      [] name = "single_item" -> single_item(input)
      [] name = "character_range" -> character_range(input)
      [] name = "regular_character" -> regular_character(input)
      [] name = "not_backslash" -> not_backslash(input)
      [] name = "regex_term" -> regex_term(input)
      [] name = "special_sequence" -> special_sequence(input)
      [] name = "match_group" -> match_group(input)
      [] name = "escaped_character" -> escaped_character(input)
      [] name = "quantified_ordinary_character" -> quantified_ordinary_character(input)

\* the bodies of the closures handed to map
call_fn(f, v) ==
    CASE f.fn = "const" -> f.val
      [] f.fn = "left" -> v[1]
      [] f.fn = "right" -> v[2]
      [] f.fn = "character_class: CharacterClass" ->
            CharacterClass(v[1][1], v[1][2], unwrap_or(v[2], Once))
      [] f.fn = "character_class: Element::Class" -> Class(v)
      [] f.fn = "parse_quantifier: values" ->
            IF Len(v) = 1 THEN AtLeast(v[1]) ELSE Between(v[1], v[2])
      [] f.fn = "parse_int: value" -> from_str_radix(v)
      [] f.fn = "parse_sign: s" -> IF v.some THEN Exclusive ELSE Inclusive
      [] f.fn = "single_item: Token::Literal" -> Literal(v)
      [] f.fn = "special_sequence: Element::Sequence" ->
            Sequence(SpecialSequence(v[1]), unwrap_or(v[2], Once))
      [] f.fn = "match_group: Element::CaptureGroup" ->
            CaptureGroup(v[1], unwrap_or(v[2], Once))
      [] f.fn = "quantified_ordinary_character: Element::Class" ->
            Class(CharacterClass(Inclusive, <<Literal(v[1])>>, unwrap_or(v[2], Once)))
      [] f.fn = "regex_term: Term" -> Term(v[1].some, v[2][2].some, v[2][1])

\* the bodies of the closures handed to pred
call_pred(f, c) ==
    CASE f.fn = "is_whitespace" -> is_whitespace(c)
      [] f.fn = "is_digit" -> is_digit(c)
      [] f.fn = "not_backslash" -> c # "\\"
      [] f.fn = "single_item: c != ']'" -> c # "]"
      [] f.fn = "character_range: c != '-'" -> c # "-"
      [] f.fn = "regular_character: !SPECIAL_CHARS" -> c \notin SPECIAL_CHARS
      [] f.fn = "special_sequence: SEQ_CHARS" -> c \in SEQ_CHARS
      [] f.fn = "escaped_character: SPECIAL_CHARS" -> c \in SPECIAL_CHARS

(***************************************************************************)
(* src/fsm.rs                                                              *)
(***************************************************************************)
Failed == [tag |-> "Failed"]

Intermediate(n) == [tag |-> "Intermediate", idx |-> n]

Success == [tag |-> "Success"]

\* a Rust panic: an index out of bounds aborts the call
Panic == [tag |-> "Panic"]

\* the length of the array in `struct Transitions([State; 256])`
TableSize == 256

\* Transitions::default
Transitions_default == [j \in 0..(TableSize - 1) |-> Failed]

\* FSM::new: the empty graph
new == <<>>

final_state(fsm) == Len(fsm)

push(fsm, ts) == Append(fsm, ts)

\* FSM::next; graph[idx] and Transitions::index panic out of bounds
next(fsm, state, char) ==
    CASE state = Failed -> Failed
      [] state = Success -> Success
      [] state.tag = "Intermediate" ->
            LET idx == state.idx
            IN  IF idx = final_state(fsm) THEN Success
                ELSE IF idx >= Len(fsm) \/ CodePoint(char) >= TableSize THEN Panic
                ELSE LET nxt == fsm[idx + 1][CodePoint(char)]
                     IN  IF nxt.tag = "Intermediate" /\ nxt.idx = final_state(fsm)
                         THEN Success
                         ELSE nxt

(***************************************************************************)
(* src/main.rs                                                             *)
(***************************************************************************)
char_to_idx(c) == IF c = "$" THEN CodePoint("\n") ELSE CodePoint(c)

\* compile_char with a bug: the new node's transition targets the node itself
compile_char_off_by_one(fsm, c) ==
    IF char_to_idx(c) >= TableSize THEN [panic |-> TRUE, fsm |-> fsm]
    ELSE [panic |-> FALSE,
          fsm |-> push(fsm, [Transitions_default EXCEPT
                                 ![char_to_idx(c)] = Intermediate(final_state(fsm))])]

\* one iteration of compile's loop over regex.chars(): the graph after it;
\* Transitions::index_mut panics out of bounds
compile_char(fsm, c) ==
    IF char_to_idx(c) >= TableSize THEN [panic |-> TRUE, fsm |-> fsm]
    ELSE [panic |-> FALSE,
          fsm |-> push(fsm, [Transitions_default EXCEPT
                                 ![char_to_idx(c)] = Intermediate(final_state(fsm) + 1)])]

\* Regex::compile's loop, run to its end on the chars left
RECURSIVE compile_chars(_, _)
compile_chars(fsm, chars) ==
    IF chars = <<>> THEN [panic |-> FALSE, fsm |-> fsm]
    ELSE LET step == compile_char(fsm, Head(chars))
         IN  IF step.panic THEN step ELSE compile_chars(step.fsm, Tail(chars))

\* Regex::compile as a whole: the ast is only printed, the graph comes from the
\* chars of the pattern text
compile(pattern) == compile_chars(new, pattern)

\* Regex::matches' loop and the end-of-line step, run to the end on the chars left
RECURSIVE matches_chars(_, _, _)
matches_chars(fsm, state, chars) ==
    IF chars = <<>>
    THEN LET eol == next(fsm, state, "\n")
         IN  IF eol = Panic THEN [panic |-> TRUE, value |-> FALSE]
             ELSE [panic |-> FALSE, value |-> (eol = Success)]
    ELSE LET nxt == next(fsm, state, Head(chars))
         IN  IF nxt = Panic THEN [panic |-> TRUE, value |-> FALSE]
             ELSE IF nxt = Failed THEN [panic |-> FALSE, value |-> FALSE]
             ELSE IF nxt = Success THEN [panic |-> FALSE, value |-> TRUE]
             ELSE matches_chars(fsm, nxt, Tail(chars))

\* Regex::matches as a whole
matches(fsm, string) == matches_chars(fsm, Intermediate(0), string)

\* the callers that hold a reference to the compiled Regex
Callers == {"c1", "c2"}

\* set_state with a bug: the state is kept in the shared Regex, so that every
\* call under way sees the assignment
set_state_shared(states, caller, state) == [c \in DOMAIN states |-> state]

\* the assignment to matches' local `state`: private to the call
set_state(states, caller, state) == [states EXCEPT ![caller] = state]

NotRun == [run |-> FALSE]

\* Regex::compile, up to FSM::new()
CompileParse ==
    /\ cpc = "parse"
    /\ ast' = parse_regex(regex)
    /\ graph' = new
    /\ cpc' = "loop"
    /\ UNCHANGED <<regex, cpos, mpc, mtext, mstate, mpos, mresult, pinput, pout>>

\* Regex::compile: one iteration of `for c in regex.as_ref().chars()`
CompileLoop ==
    /\ cpc = "loop"
    /\ cpos < Len(regex)
    /\ LET step == compile_char(graph, regex[cpos + 1])
       IN  IF step.panic
           THEN cpc' = "panic" /\ UNCHANGED graph
           ELSE graph' = step.fsm /\ UNCHANGED cpc
    /\ cpos' = cpos + 1
    /\ UNCHANGED <<regex, ast, mpc, mtext, mstate, mpos, mresult, pinput, pout>>

\* Regex::compile: the loop is over, Self { fsm } is returned
CompileReturn ==
    /\ cpc = "loop"
    /\ cpos = Len(regex)
    /\ cpc' = "done"
    /\ UNCHANGED <<regex, ast, cpos, graph, mpc, mtext, mstate, mpos, mresult, pinput, pout>>

\* Regex::matches is called: `let mut state = State::Intermediate(0)`
MatchesCall(caller, string) ==
    /\ cpc = "done"
    /\ mpc[caller] = "idle"
    /\ mpc' = [mpc EXCEPT ![caller] = "loop"]
    /\ mtext' = [mtext EXCEPT ![caller] = string]
    /\ mstate' = set_state(mstate, caller, Intermediate(0))
    /\ mpos' = [mpos EXCEPT ![caller] = 0]
    /\ UNCHANGED <<regex, ast, cpc, cpos, graph, mresult, pinput, pout>>

\* MatchesLoop with a bug: no return on State::Failed, the scan goes on
MatchesLoop_scans_on(caller) ==
    /\ mpc[caller] = "loop"
    /\ mpos[caller] < Len(mtext[caller])
    /\ LET state == next(graph, mstate[caller], mtext[caller][mpos[caller] + 1])
       IN  /\ mpos' = [mpos EXCEPT ![caller] = mpos[caller] + 1]
           /\ IF state = Panic
              THEN /\ mpc' = [mpc EXCEPT ![caller] = "panic"]
                   /\ UNCHANGED <<mstate, mresult>>
              ELSE /\ mstate' = set_state(mstate, caller, state)
                   /\ IF state = Success
                      THEN /\ mpc' = [mpc EXCEPT ![caller] = "done"]
                           /\ mresult' = [mresult EXCEPT ![caller] = TRUE]
                      ELSE UNCHANGED <<mpc, mresult>>
    /\ UNCHANGED <<regex, ast, cpc, cpos, graph, mtext, pinput, pout>>

\* Regex::matches: one iteration of `for c in string.as_ref().chars()`
MatchesLoop(caller) ==
    /\ mpc[caller] = "loop"
    /\ mpos[caller] < Len(mtext[caller])
    /\ LET state == next(graph, mstate[caller], mtext[caller][mpos[caller] + 1])
       IN  /\ mpos' = [mpos EXCEPT ![caller] = mpos[caller] + 1]
           /\ IF state = Panic
              THEN /\ mpc' = [mpc EXCEPT ![caller] = "panic"]
                   /\ UNCHANGED <<mstate, mresult>>
              ELSE /\ mstate' = set_state(mstate, caller, state)
                   /\ IF state = Failed
                      THEN /\ mpc' = [mpc EXCEPT ![caller] = "done"]
                           /\ mresult' = [mresult EXCEPT ![caller] = FALSE]
                      ELSE IF state = Success
                      THEN /\ mpc' = [mpc EXCEPT ![caller] = "done"]
                           /\ mresult' = [mresult EXCEPT ![caller] = TRUE]
                      ELSE UNCHANGED <<mpc, mresult>>
    /\ UNCHANGED <<regex, ast, cpc, cpos, graph, mtext, pinput, pout>>

\* Regex::matches: after the loop, `state = self.fsm.next(state, '\n')` and the
\* answer `state == State::Success`
MatchesEol(caller) ==
    /\ mpc[caller] = "loop"
    /\ mpos[caller] = Len(mtext[caller])
    /\ LET state == next(graph, mstate[caller], "\n")
       IN  IF state = Panic
           THEN /\ mpc' = [mpc EXCEPT ![caller] = "panic"]
                /\ UNCHANGED <<mstate, mresult>>
           ELSE /\ mstate' = set_state(mstate, caller, state)
                /\ mpc' = [mpc EXCEPT ![caller] = "done"]
                /\ mresult' = [mresult EXCEPT ![caller] = (state = Success)]
    /\ UNCHANGED <<regex, ast, cpc, cpos, graph, mtext, mpos, pinput, pout>>

\* the caller has its answer (or its panic) and is free to call again
MatchesReturn(caller) ==
    /\ mpc[caller] \in {"done", "panic"}
    /\ mpc' = [mpc EXCEPT ![caller] = "idle"]
    /\ mtext' = [mtext EXCEPT ![caller] = <<>>]
    /\ mstate' = set_state(mstate, caller, Intermediate(0))
    /\ mpos' = [mpos EXCEPT ![caller] = 0]
    /\ mresult' = [mresult EXCEPT ![caller] = FALSE]
    /\ UNCHANGED <<regex, ast, cpc, cpos, graph, pinput, pout>>

\* parse_regex applied to the input under test
RunParseRegex ==
    /\ pout.regex = NotRun
    /\ pout' = [pout EXCEPT !.regex = parse_regex(pinput)]
    /\ UNCHANGED <<regex, ast, cpc, cpos, graph, mpc, mtext, mstate, mpos, mresult, pinput>>

\* parse_quantifier applied to the input under test
RunParseQuantifier ==
    /\ pout.quantifier = NotRun
    /\ pout' = [pout EXCEPT !.quantifier = parse_quantifier(pinput)]
    /\ UNCHANGED <<regex, ast, cpc, cpos, graph, mpc, mtext, mstate, mpos, mresult, pinput>>

(***************************************************************************)
(* The inputs of the model.                                                *)
(***************************************************************************)
PatternAlphabet == {"a", "b", "$", "^", "+", "?"}

Hello == <<"H", "e", "l", "l", "o">>

HelloWorld == <<"H", "e", "l", "l", "o", ",", " ", "W", "o", "r", "l", "d", "!">>

ExamplePatterns ==
    { <<"^">> \o Hello \o <<"$">>,
      <<"[", "a", "-">>,
      <<"[", "a", "b", "]">>,
      <<"^", "a", "$">>,
      <<"a", "+", "?">>,
      <<"a", "b", "c">>,
      <<"a", "€">> }

Patterns == BoundedSeq(PatternAlphabet, MaxPatternLen) \cup ExamplePatterns

TextAlphabet == {"a", "b", "\n", "€"}

ExampleTexts ==
    { Hello, HelloWorld,
      <<"^", "a">>, <<"^", "a", "\n">>,
      <<"a", "+">>, <<"a", "+", "?">>,
      <<"a", "b", "c">>, <<"a", "b", "c", "d">> }

Texts == BoundedSeq(TextAlphabet, MaxTextLen) \cup ExampleTexts

SharedPatterns == BoundedSeq({"a", "$"}, MaxSharedLen)

SharedTexts == BoundedSeq({"a", "\n", "€"}, MaxSharedLen)

ParseAlphabet == {"a", "|", "(", ")", "[", "]", "-", "^", "$", "+", "?", " "}

BraceAlphabet == {"1", "2", ",", " "}

BraceInputs ==
    {<<"{">> \o body \o tail : body \in BoundedSeq(BraceAlphabet, MaxBraceLen),
                               tail \in {<<>>, <<"}">>, <<"}", "a">>}}

ExampleParseInputs ==
    { <<"{", "4", ",", " ", "5", "}">>,
      <<"[", "^", "a", "-", "z", "]", "{", "4", ",", " ", "5", "}", "x", "y", "z">>,
      <<"(", "a", "b", ")", "+", "c">>,
      <<"(", "(", "a", ")", ")">>,
      <<"(", "(", "a", ")", "+", "b", ")", "*", "|", "[", "a", "-", "b", "]">> }

ParseInputs == BoundedSeq(ParseAlphabet, MaxParseLen) \cup BraceInputs \cup ExampleParseInputs

(***************************************************************************)
(* Specifications.                                                         *)
(***************************************************************************)
Idle ==
    /\ mpc = [c \in Callers |-> "idle"]
    /\ mtext = [c \in Callers |-> <<>>]
    /\ mstate = [c \in Callers |-> Intermediate(0)]
    /\ mpos = [c \in Callers |-> 0]
    /\ mresult = [c \in Callers |-> FALSE]

NotCompiling ==
    /\ ast = NotRun
    /\ cpc = "parse"
    /\ cpos = 0
    /\ graph = new

NotParsing ==
    /\ pinput = <<>>
    /\ pout = [regex |-> NotRun, quantifier |-> NotRun]

\* one caller compiles a pattern, then calls matches again and again
Init ==
    /\ regex \in Patterns
    /\ NotCompiling
    /\ Idle
    /\ NotParsing

Next ==
    \/ CompileParse
    \/ CompileLoop
    \/ CompileReturn
    \/ \E string \in Texts : MatchesCall("c1", string)
    \/ MatchesLoop("c1")
    \/ MatchesEol("c1")
    \/ MatchesReturn("c1")

Spec == Init /\ [][Next]_vars

\* two callers share one compiled pattern; their calls interleave step by step
InitShared ==
    /\ regex \in SharedPatterns
    /\ NotCompiling
    /\ Idle
    /\ NotParsing

NextShared ==
    \/ CompileParse
    \/ CompileLoop
    \/ CompileReturn
    \/ \E caller \in Callers :
          \/ \E string \in SharedTexts : MatchesCall(caller, string)
          \/ MatchesLoop(caller)
          \/ MatchesEol(caller)
          \/ MatchesReturn(caller)

SpecShared == InitShared /\ [][NextShared]_vars

\* the parsers on their own
InitParse ==
    /\ regex = <<>>
    /\ NotCompiling
    /\ Idle
    /\ pinput \in ParseInputs
    /\ pout = [regex |-> NotRun, quantifier |-> NotRun]

NextParse ==
    \/ RunParseRegex
    \/ RunParseQuantifier

SpecParse == InitParse /\ [][NextParse]_vars

(***************************************************************************)
(* Properties.                                                             *)
(***************************************************************************)
\* every char a pattern or a text of the model is made of
AllChars ==
    PatternAlphabet \cup TextAlphabet
        \cup UNION {{s[i] : i \in 1..Len(s)} : s \in ExamplePatterns \cup ExampleTexts}

\* a non-empty run of ordinary characters
IsLiteralBody(body) ==
    body # <<>> /\ \A i \in 1..Len(body) : body[i] \notin SPECIAL_CHARS

\* the compiled graph agrees with Regex::compile taken as a whole
CompileAgrees == cpc = "done" => graph = compile(regex).fsm

\* C1: compile yields a ParseError, never a compiled pattern, whenever
\* parse_regex cannot consume the whole pattern text: a compile that has returned
\* a Regex had a pattern that parsed.
C1_CompileRejectsUnparsed == cpc = "done" => ast.ok

\* a symbol belongs to a token of a character class
TokenHas(token, ch) ==
    IF token.token = "Literal" THEN ch = token.c
    ELSE CodePoint(token.lo) <= CodePoint(ch) /\ CodePoint(ch) <= CodePoint(token.hi)

\* a symbol belongs to a character class
ClassHas(class, ch) ==
    (class.sign = Inclusive) <=> (\E i \in 1..Len(class.items) : TokenHas(class.items[i], ch))

\* one unanchored term of unquantified literals and classes
LiteralOnly(terms) ==
    /\ Len(terms) = 1
    /\ ~terms[1].left_anchored
    /\ ~terms[1].right_anchored
    /\ \A i \in 1..Len(terms[1].elements) :
          /\ terms[1].elements[i].element = "Class"
          /\ terms[1].elements[i].class.quantifier = Once

\* the text is one symbol per element of the term, in order
ExactConcatenation(term, text) ==
    /\ Len(text) = Len(term.elements)
    /\ \A i \in 1..Len(text) : ClassHas(term.elements[i].class, text[i])

\* C2: for a pattern of literals and classes only, matches(s) is true iff s is
\* exactly one symbol per pattern element, in order: neither a proper prefix nor
\* a text that continues past it matches.
C2_LiteralExact ==
    \A c \in Callers :
        (cpc = "done" /\ mpc[c] = "done" /\ ast.ok /\ LiteralOnly(ast.val))
            => (mresult[c] <=> ExactConcatenation(ast.val[1], mtext[c]))

\* C3: matches is total: on a pattern that parsed no call aborts, whatever the
\* text (code points of 256 and more included).
C3_MatchesTotal == \A c \in Callers : (cpc = "done" /\ ast.ok) => mpc[c] # "panic"

\* C4, the state part: the answer of a finished call is the answer of matches
\* run alone on the same graph and text, and a call that aborts is one that
\* aborts alone.
C4_AnswerIsFunctionOfText ==
    \A c \in Callers :
        /\ mpc[c] = "done" =>
              /\ ~matches(graph, mtext[c]).panic
              /\ mresult[c] = matches(graph, mtext[c]).value
        /\ mpc[c] = "panic" => matches(graph, mtext[c]).panic

\* C4, the step part: once compiled the graph never changes, and a step of one
\* call leaves the state of every other caller's call alone.
C4_StepIsPrivate ==
    /\ cpc = "done" => graph' = graph
    /\ \A c \in Callers :
          (mpc'[c] # mpc[c] \/ mpos'[c] # mpos[c] \/ mtext'[c] # mtext[c])
              => \A d \in Callers \ {c} :
                    /\ mstate'[d] = mstate[d]
                    /\ mpos'[d] = mpos[d]
                    /\ mresult'[d] = mresult[d]
                    /\ mtext'[d] = mtext[d]

\* C4: for a fixed compiled pattern and a fixed text every call of matches gives
\* the same answer, whatever calls ran before it or are interleaved with it: a
\* call writes only its private state and leaves the graph unchanged.
C4_Deterministic == [](C4_AnswerIsFunctionOfText) /\ [][C4_StepIsPrivate]_vars

\* C4 witness: two calls on different texts are under way at once, one finished
\* with true and the other still scanning.
C4_Witness ==
    /\ mpc["c1"] = "done" /\ mresult["c1"]
    /\ mpc["c2"] = "loop" /\ mpos["c2"] > 0
    /\ mtext["c1"] # mtext["c2"]

\* C5: a pattern ^L$ with a literal body L matches a text s iff s = L (so
\* ^Hello$ matches "Hello" and not "Hello, World!").
C5_AnchoredLiteral ==
    \A c \in Callers :
        (cpc = "done" /\ mpc[c] = "done" /\ Len(regex) >= 3
            /\ Head(regex) = "^" /\ regex[Len(regex)] = "$"
            /\ IsLiteralBody(SubSeq(regex, 2, Len(regex) - 1)))
            => (mresult[c] <=> mtext[c] = SubSeq(regex, 2, Len(regex) - 1))

\* the greedy quantifier marks
GreedyMarks == {"+", "*", "?"}

\* the places of a pattern where a greedy quantifier follows an ordinary character
GreedyPlaces(pattern) ==
    {i \in 2..Len(pattern) :
        /\ pattern[i] \in GreedyMarks
        /\ pattern[i - 1] \notin SPECIAL_CHARS
        /\ (i = Len(pattern) \/ pattern[i + 1] # "?")}

\* the pattern with the quantifier at place i made lazy
LazyAt(pattern, i) ==
    SubSeq(pattern, 1, i) \o <<"?">> \o SubSeq(pattern, i + 1, Len(pattern))

\* C6: a pattern with a greedy quantifier and the pattern with its lazy variant
\* compile to the same graph and accept the same texts.
C6_LazySameAsGreedy ==
    (cpc = "done" /\ ast.ok)
        => \A i \in GreedyPlaces(regex) :
              parse_regex(LazyAt(regex, i)).ok
                  => /\ graph = compile(LazyAt(regex, i)).fsm
                     /\ \A text \in Texts :
                           matches(graph, text) = matches(compile(LazyAt(regex, i)).fsm, text)

\* what sep_by(regex_term, "|") reads of the input under test
TermsRead == parse(sep_by(fn_item("regex_term"), <<"|">>), pinput)

\* C7: parse_regex returns Ok only with an empty remainder, and with the terms
\* that sep_by(regex_term, "|") read; when these terms leave text unconsumed, or
\* no term parses, the result is Err.
C7_NoPartialSuccess ==
    pout.regex # NotRun =>
        /\ pout.regex.ok => (pout.regex.rest = <<>> /\ TermsRead.ok
                             /\ pout.regex.val = TermsRead.val)
        /\ (~TermsRead.ok \/ TermsRead.rest # <<>>) => ~pout.regex.ok
        /\ (TermsRead.ok /\ TermsRead.rest = <<>>) => pout.regex.ok

\* C7 witness: terms were read, text was left over (a dangling `|`, an unmatched
\* bracket or parenthesis) and parse_regex answered Err.
C7_Witness ==
    /\ pout.regex # NotRun
    /\ TermsRead.ok
    /\ TermsRead.rest # <<>>
    /\ Head(TermsRead.rest) \in {"|", "[", "("}
    /\ ~pout.regex.ok

\* what is between the braces of the input under test: the integers that
\* sep_by(parse_int, ",") reads after `{`, when a `}` follows them
BraceForm ==
    parse(left(right(match_literal(<<"{">>), sep_by(fn_item("parse_int"), <<",">>)),
               match_literal(<<"}">>)),
          pinput)

\* C8: on a brace form, one integer yields AtLeast(m), two yield Between(m,n),
\* and every other brace form (three or more integers, none) is rejected.
C8_BraceForms ==
    (pout.quantifier # NotRun /\ pinput # <<>> /\ Head(pinput) = "{") =>
        /\ (BraceForm.ok /\ Len(BraceForm.val) = 1)
              => (pout.quantifier.ok /\ pout.quantifier.val = AtLeast(BraceForm.val[1]))
        /\ (BraceForm.ok /\ Len(BraceForm.val) = 2)
              => (pout.quantifier.ok
                  /\ pout.quantifier.val = Between(BraceForm.val[1], BraceForm.val[2]))
        /\ (~BraceForm.ok \/ Len(BraceForm.val) \notin {1, 2}) => ~pout.quantifier.ok

\* C9: for a pattern L$ with a literal body L, matches(text) is true only if
\* text = L: the `$` consumes no character of the text, a newline included.
C9_DollarOnlyAtEnd ==
    \A c \in Callers :
        (cpc = "done" /\ mpc[c] = "done" /\ Len(regex) >= 2
            /\ regex[Len(regex)] = "$"
            /\ IsLiteralBody(SubSeq(regex, 1, Len(regex) - 1)))
            => (mresult[c] => mtext[c] = SubSeq(regex, 1, Len(regex) - 1))

\* C10, the state part: a call whose state is Failed has returned false, a call
\* still scanning is in an Intermediate state, and Failed and Success are
\* absorbing under FSM::next for every symbol.
C10_FailedIsFinal ==
    /\ \A c \in Callers :
          /\ mstate[c] = Failed => (mpc[c] = "done" /\ mresult[c] = FALSE)
          /\ mpc[c] = "loop" => mstate[c].tag = "Intermediate"
    /\ \A ch \in AllChars :
          /\ next(graph, Failed, ch) = Failed
          /\ next(graph, Success, ch) = Success

\* C10, the step part: once the state of a call is Failed no later symbol of its
\* text is read: the next thing the caller does is take the answer.
C10_NoReadAfterFailed ==
    \A c \in Callers :
        mstate[c] = Failed => (mpos'[c] = mpos[c] \/ mpc'[c] = "idle")

\* C10: as soon as the matcher is in state Failed, matches returns false without
\* reading any later symbol; Failed, like Success, is absorbing under FSM::next.
C10_FailStopsScan == [](C10_FailedIsFinal) /\ [][C10_NoReadAfterFailed]_vars

\* C10 witness: a call returned false in state Failed with symbols left unread.
C10_Witness ==
    /\ mpc["c1"] = "done"
    /\ mstate["c1"] = Failed
    /\ mresult["c1"] = FALSE
    /\ mpos["c1"] < Len(mtext["c1"])

\* the table entries of a node that are not Failed
LiveEntries(node) == {j \in 0..(TableSize - 1) : node[j] # Failed}

\* C11: after compile(p) for a pattern of n characters the graph has exactly n
\* nodes and final_state() = n; matches starts in node 0; at every step of the
\* construction and afterwards node i has exactly one transition that is not
\* Failed and it targets Intermediate(i+1), so no target exceeds n.
C11_LinearChain ==
    /\ cpc \in {"loop", "done"} => Len(graph) = cpos
    /\ Len(graph) <= Len(regex)
    /\ cpc = "done" => (Len(graph) = Len(regex) /\ final_state(graph) = Len(regex))
    /\ \A i \in 0..(Len(graph) - 1) :
          /\ Cardinality(LiveEntries(graph[i + 1])) = 1
          /\ \A j \in LiveEntries(graph[i + 1]) :
                /\ graph[i + 1][j] = Intermediate(i + 1)
                /\ graph[i + 1][j].idx <= Len(regex)
    /\ \A c \in Callers :
          (mpc[c] = "loop" /\ mpos[c] = 0) => mstate[c] = Intermediate(0)

\* C11 witness: compile has returned for a pattern of three characters or more
\* and a call of matches is about to start in node 0.
C11_Witness ==
    /\ cpc = "done"
    /\ Len(regex) >= 3
    /\ Len(graph) = Len(regex)
    /\ mpc["c1"] = "loop"
    /\ mpos["c1"] = 0

\* the input under test from each of its positions on: the inputs the parsers
\* are handed while it is parsed
Suffixes(input) == {SubSeq(input, i, Len(input)) : i \in 1..(Len(input) + 1)}

\* one iteration of sep_by after the first: the separator, then the parser
SepIteration(parser, sep) == pair(whitespace_surrounded_sep(sep), parser)

\* what the grammar iterates: the parser of zero_or_more in whitespace, of
\* one_or_more in parse_int, inside_character_class and regex_term, and of
\* sep_by (first and later iterations) in parse_quantifier, character_range and
\* parse_regex
IteratedParsers ==
    << pred(fn_item("any_char"), closure("is_whitespace")),
       pred(fn_item("any_char"), closure("is_digit")),
       or(fn_item("character_range"), fn_item("single_item")),
       or(or(or(fn_item("special_sequence"), fn_item("character_class")),
             fn_item("quantified_ordinary_character")),
          fn_item("match_group")),
       fn_item("parse_int"),
       SepIteration(fn_item("parse_int"), <<",">>),
       pred(fn_item("not_backslash"), closure("character_range: c != '-'")),
       SepIteration(pred(fn_item("not_backslash"), closure("character_range: c != '-'")),
                    <<"-">>),
       fn_item("regex_term"),
       SepIteration(fn_item("regex_term"), <<"|">>) >>

\* a parse that returns, and that is shorter on its remainder when it succeeds
Consumes(parser, input) ==
    LET r == parse(parser, input)
    IN  r # Hang /\ (r.ok => Len(r.rest) < Len(input))

\* C12: parse_regex terminates: on every input it returns (no loop goes on for
\* ever), every parser the grammar iterates with zero_or_more, one_or_more or
\* sep_by consumes at least one character when it succeeds, and match_group
\* hands regex_term a strictly shorter input (what follows its `(`).
C12_ParseTerminates ==
    /\ pout.regex # NotRun => pout.regex # Hang
    /\ pout.quantifier # NotRun => pout.quantifier # Hang
    /\ (pout.regex # NotRun /\ pout.quantifier # NotRun) =>
          \A input \in Suffixes(pinput) :
              /\ \A k \in 1..Len(IteratedParsers) : Consumes(IteratedParsers[k], input)
              /\ Consumes(match_literal(<<"(">>), input)
              /\ match_group(input) # Hang

\* C12 witness: parse_regex returned Ok for an input whose group holds two
\* elements or more (the loop of regex_term ran inside the recursion) and is
\* followed by a further element.
C12_Witness ==
    /\ pout.regex # NotRun
    /\ pout.regex.ok
    /\ Len(pout.regex.val[1].elements) >= 2
    /\ pout.regex.val[1].elements[1].element = "CaptureGroup"
    /\ Len(pout.regex.val[1].elements[1].term.elements) >= 2

====
